---------------------------- MODULE Spec2Model ----------------------------
(***************************************************************************)
(* Model of amlb/results.py: the Scoreboard ledger (save_df, path,         *)
(* from_file), the Result hierarchy (evaluate) and TaskResult              *)
(* (load_predictions, validate_predictions, compute_score).                *)
(*                                                                         *)
(* The specifications that share the module:                               *)
(*   Spec         - the ledger file under successive Scoreboard.save_df    *)
(*   SpecLoad     - TaskResult.load_predictions on a predictions file      *)
(*   SpecScore    - Result.evaluate and TaskResult.compute_score           *)
(*   SpecName     - Scoreboard.path followed by Scoreboard.from_file       *)
(*   SpecPredName - TaskResult.score_from_predictions_file on a file name  *)
(*   SpecBoard    - Scoreboard.append and Scoreboard.as_data_frame         *)
(*   SpecSeries   - TimeSeriesResult.__init__ on a prediction table        *)
(*   SpecPce      - ClassificationResult.mean_pce / max_pce                *)
(*   SpecArgmax   - the arg-max check of TaskResult.validate_predictions   *)
(***************************************************************************)
EXTENDS Integers, Sequences, FiniteSets, TLC

VARIABLES
    \* ---- ledger (Spec) ----
    file,       \* the ledger file at `path`: [exists, header, rows]
    backups,    \* the copies made by backup_file, oldest first
    calls,      \* the I/O calls of the last save_df, in program order
    saved,      \* the arguments of the last save_df: [frame, append]
    saves,      \* number of save_df calls so far
    \* ---- scoring pass (SpecScore) ----
    predFile,   \* the predictions file handed to load_predictions
    test_mode,  \* rconfig().test_mode
    pc,         \* position of the scoring pass
    result,     \* the Result returned by load_predictions
    metadata,   \* [metric, metrics] of the run metadata
    entry,      \* the entry returned by compute_score
    lastEval,   \* the last value returned by result.evaluate(m)
    \* ---- file naming (SpecName) ----
    sep,        \* rconfig().token_separator
    board,      \* [framework_name, benchmark_name, task_name] of a Scoreboard
    basename,   \* the file name Scoreboard.path produced
    parsed,     \* what Scoreboard.from_file recovered from basename
    \* ---- predictions file naming (SpecPredName) ----
    file_g,     \* what score_from_predictions_file recovered from basename
    \* ---- scoreboards (SpecBoard) ----
    scores,     \* Scoreboard.scores: the data frame [columns, rows]
    appended,   \* the last Scoreboard.append: [self, other, no_duplicates]
    \* ---- prediction data (SpecSeries, SpecPce, SpecArgmax) ----
    table,      \* the prediction table, with its cell values
    built       \* what the constructor, metric or validation made of it

ledgerVars == <<file, backups, calls, saved, saves>>
loadVars   == <<predFile, test_mode>>
scoreVars  == <<metadata, entry, lastEval>>
passVars   == <<predFile, test_mode, pc, result, metadata, entry, lastEval>>
nameVars   == <<sep, board, basename, parsed>>
boardVars  == <<scores, appended>>
dataVars   == <<table, built>>
extVars    == <<file_g, scores, appended, table, built>>
vars == <<file, backups, calls, saved, saves,
          predFile, test_mode, pc, result, metadata, entry, lastEval,
          sep, board, basename, parsed,
          file_g, scores, appended, table, built>>

(***************************************************************************)
(* Generic sequence helpers                                                *)
(***************************************************************************)
Range(s) == {s[i] : i \in 1..Len(s)}

IsDistinct(s) == \A i, j \in 1..Len(s) : i # j => s[i] # s[j]

\* all sequences over S of length lo..hi
SeqsOf(S, lo, hi) == UNION {[1..n -> S] : n \in lo..hi}

\* position of x in s (0 when absent)
IndexOf(s, x) == IF x \in Range(s) THEN CHOOSE i \in 1..Len(s) : s[i] = x ELSE 0

(***************************************************************************)
(* Scoreboard.save_df                                                      *)
(***************************************************************************)
\* bound: number of save_df calls in a behaviour
MaxSaves == 3

\* the column names the frames are built from
LedgerCols == {"acc", "auc"}

\* a frame's columns: a non-empty sequence of distinct names
ColumnSeqs == {c \in SeqsOf(LedgerCols, 1, Cardinality(LedgerCols)) : IsDistinct(c)}

\* a cell: the row it was written for and the column it belongs to
Cell(id, col) == <<id, col>>
NaNCell == <<0, "NaN">>

\* the frame save_df is given at its k-th call: one fresh row under `cols`
NewFrame(cols, k) ==
    [columns |-> cols, rows |-> <<[i \in 1..Len(cols) |-> Cell(k, cols[i])]>>]

NoFile == [exists |-> FALSE, header |-> <<>>, rows |-> <<>>]

\* read_csv(path): the table under the file's header line
read_csv(f) == [columns |-> f.header, rows |-> f.rows]

\* write_csv(df, path, header, append): mode 'w' with a header line, or mode
\* 'a' appending the data lines positionally
write_csv(df, f, header, append) ==
    IF append
    THEN [exists |-> TRUE,
          header |-> IF header THEN df.columns ELSE f.header,
          rows   |-> f.rows \o df.rows]
    ELSE [exists |-> TRUE,
          header |-> IF header THEN df.columns ELSE <<>>,
          rows   |-> df.rows]

\* backup_file(path): copies the file, if it exists, next to the original
backup_file(f, bk) == IF f.exists THEN Append(bk, f) ELSE bk

\* pandas DataFrame.append(other): the columns are the caller's columns
\* followed by the columns only `other` has, in their order of appearance;
\* rows are re-aligned by column name and missing cells are NaN
UnionColumns(a, b) ==
    a \o SelectSeq(b, LAMBDA c : c \notin Range(a))

Reindex(row, from, to) ==
    IF from = to THEN row
    ELSE LET pos == [c \in Range(from) |-> CHOOSE k \in 1..Len(from) : from[k] = c]
         IN  [i \in 1..Len(to) |->
                 IF to[i] \in DOMAIN pos THEN row[pos[to[i]]] ELSE NaNCell]

DataFrameAppend(old, new) ==
    LET cols == UnionColumns(old.columns, new.columns)
    IN  [columns |-> cols,
         rows |-> [i \in 1..Len(old.rows) |-> Reindex(old.rows[i], old.columns, cols)]
                  \o [i \in 1..Len(new.rows) |-> Reindex(new.rows[i], new.columns, cols)]]

\* line 114: new_format = list(head.columns) != list(data_frame.columns)
new_format_set(head, columns) == Range(head) # Range(columns)
new_format(head, columns) == head # columns

\* line 115: if new_format or (exists and not append): backup_file(path)
needs_backup_drift_only(exists, nf, append) == nf
needs_backup(exists, nf, append) == nf \/ (exists /\ ~append)

\* line 117-118: df = read_csv(path).append(data_frame) on drift with append
merged_frame_only(f, frame) == frame
merged(f, frame) == DataFrameAppend(read_csv(f), frame)

\* line 119: new_file = not exists or not append or new_format
new_file(exists, nf, append) == ~exists \/ ~append \/ nf

SaveDf(frame, append) ==
    LET exists == file.exists
        nf     == exists /\ new_format(read_csv(file).columns, frame.columns)
        bak    == needs_backup(exists, nf, append)
        df     == IF nf /\ append THEN merged(file, frame) ELSE frame
        nfile  == new_file(exists, nf, append)
    IN  /\ saves < MaxSaves
        /\ backups' = IF bak THEN backup_file(file, backups) ELSE backups
        /\ file' = write_csv(df, file, nfile, ~nfile)
        /\ calls' = (IF exists THEN <<"read_csv_head">> ELSE <<>>)
                    \o (IF bak THEN <<"backup_file">> ELSE <<>>)
                    \o (IF nf /\ append THEN <<"read_csv">> ELSE <<>>)
                    \o <<IF nfile THEN "write_csv_w" ELSE "write_csv_a">>
        /\ saved' = [frame |-> frame, append |-> append]
        /\ saves' = saves + 1
        /\ UNCHANGED <<passVars, nameVars, extVars>>

SaveDfAction ==
    \E cols \in ColumnSeqs, append \in BOOLEAN :
        SaveDf(NewFrame(cols, saves + 1), append)


(***************************************************************************)
(* The metric registry and the Result hierarchy                            *)
(***************************************************************************)
\* A name (of a metric, an entry field) is a sequence of pieces, so that the
\* f-string f"neg_{name}" is the concatenation <<"neg_">> \o name.
\* Python's None, where a name is expected, is the empty sequence.
NoneName == <<>>
N(s) == <<s>>

\* metric values: a number, NaN, or a non-scalar object (array, list)
Num(n) == <<"num", n>>
NaN == <<"nan", 0>>
Obj == <<"obj", 0>>
\* unary minus: -nan is nan, -array is an array
Negate(v) == IF v[1] = "num" THEN Num(-v[2]) ELSE v

\* the methods decorated with @metric, per class
ClassificationMetrics ==
    {N("acc"), N("auc"), N("auc_ovo"), N("auc_ovr"), N("balacc"), N("f05"),
     N("f1"), N("f2"), N("logloss"), N("max_pce"), N("mean_pce"), N("pr_auc")}
RegressionMetrics ==
    {N("mae"), N("mse"), N("msle"), N("rmse"), N("rmsle"), N("r2")}
TimeSeriesMetrics ==
    {N("smape"), N("mape"), N("wape"), N("mase"), N("mql"), N("wql"), N("sql")}

\* the metrics registered with @metric(higher_is_better=False)
LowerIsBetter ==
    {N("logloss"), N("max_pce"), N("mean_pce"),
     N("mae"), N("mse"), N("msle"), N("rmse"), N("rmsle")} \cup TimeSeriesMetrics

\* _supported_metrics_: filled by the decorator when the classes are defined
supported_metrics == ClassificationMetrics \cup RegressionMetrics \cup TimeSeriesMetrics

\* get_metadata(fn, 'higher_is_better'): the flag the decorator stored on a
\* metric method, None for anything else
higher_is_better(m) ==
    IF m \notin supported_metrics THEN "None"
    ELSE IF m \in LowerIsBetter THEN "False" ELSE "True"

\* instance attributes and methods that are not metrics
ResultFields == {N("df"), N("info"), N("truth"), N("predictions"), N("target"),
                 N("type"), N("evaluate")}
\* non-metric methods that can be called without arguments
NoArgHelpers(kind) ==
    CASE kind = "ClassificationResult" -> {N("_cm"), N("_per_class_errors")}
      [] kind = "TimeSeriesResult"     -> {N("_quantile_loss_per_step")}
      [] OTHER                         -> {}
\* the other attributes of each class: fields, and methods that need arguments
OtherAttrs(kind) ==
    CASE kind = "ClassificationResult" ->
            ResultFields \cup {N("classes"), N("probabilities"), N("labels"),
                               N("multi_class_average"), N("_autoencode"), N("_fbeta")}
      [] kind = "TimeSeriesResult" ->
            ResultFields \cup {N("item_ids"), N("abs_seasonal_error"),
                               N("quantile_predictions"), N("quantile_levels"),
                               N("_itemwise_mean"), N("_safemean")}
      [] OTHER -> ResultFields
\* the metrics a class implements (TimeSeriesResult extends RegressionResult)
MetricsOf(kind) ==
    CASE kind = "ClassificationResult" -> ClassificationMetrics
      [] kind = "RegressionResult"     -> RegressionMetrics
      [] kind = "TimeSeriesResult"     -> RegressionMetrics \cup TimeSeriesMetrics
      [] OTHER                         -> {}

\* hasattr(self, metric)
hasattr(res, m) ==
    m \in MetricsOf(res.kind) \cup NoArgHelpers(res.kind) \cup OtherAttrs(res.kind)

\* whether metric_fn() raises on this result: auc on a multiclass result,
\* pr_auc on a non-binary one, any metric on data the scorers reject
metric_raises(res, m) ==
    \/ res.fails
    \/ m = N("auc") /\ res.type = "multiclass"
    \/ m = N("pr_auc") /\ res.type # "binary"

NoMessage == <<"", NoneName>>

EvalRes(m, v, hib, msg) ==
    [raised |-> FALSE, metric |-> m, value |-> v, higher_is_better |-> hib, message |-> msg]
\* the call did not return: an exception left evaluate
EvalRaised(m) ==
    [raised |-> TRUE, metric |-> m, value |-> NaN, higher_is_better |-> "None",
     message |-> NoMessage]

\* Result.evaluate (ClassificationResult, RegressionResult, TimeSeriesResult)
metric_error_escapes(res, m) ==
    IF m = NoneName \/ (m \in MetricsOf(res.kind) /\ metric_raises(res, m))
    THEN EvalRaised(m)
    ELSE IF m \in MetricsOf(res.kind)
    THEN EvalRes(m, Num(res.score), higher_is_better(m), NoMessage)
    ELSE EvalRes(m, NaN, "None", <<"Unsupported", m>>)
Result_evaluate(res, m) ==
    IF m = NoneName THEN EvalRaised(m)          \* hasattr(self, None): TypeError
    ELSE IF hasattr(res, m)
    THEN IF m \in MetricsOf(res.kind)
         THEN IF metric_raises(res, m)
              THEN EvalRes(m, NaN, higher_is_better(m), <<"Scoring", m>>)
              ELSE EvalRes(m, Num(res.score), higher_is_better(m), NoMessage)
         ELSE IF m \in NoArgHelpers(res.kind)
              THEN IF res.fails
                   THEN EvalRes(m, NaN, higher_is_better(m), <<"Scoring", m>>)
                   ELSE EvalRes(m, Obj, higher_is_better(m), NoMessage)
              \* calling a field, or a method without its arguments: TypeError
              ELSE EvalRes(m, NaN, higher_is_better(m), <<"Scoring", m>>)
    ELSE EvalRes(m, NaN, "None", <<"Unsupported", m>>)

\* NoResult.evaluate, inherited by ErrorResult
direction_always_unknown(res, m) ==
    IF m = NoneName THEN EvalRes(m, NaN, "None", NoMessage)
    ELSE EvalRes(m, NaN, "None", <<"Unsupported", m>>)
NoResult_evaluate(res, m) ==
    IF m = NoneName THEN EvalRes(m, NaN, "None", NoMessage)
    ELSE IF m \notin supported_metrics
    THEN EvalRes(m, NaN, "None", <<"Unsupported", m>>)
    ELSE EvalRes(m, NaN, higher_is_better(m), NoMessage)

IsNoResult(res) == res.kind \in {"NoResult", "ErrorResult"}

\* result.evaluate(metric), dispatched on the class of result
evaluate(res, m) ==
    IF IsNoResult(res) THEN NoResult_evaluate(res, m) ELSE Result_evaluate(res, m)

(***************************************************************************)
(* TaskResult.compute_score                                                *)
(***************************************************************************)
\* entry[k] = v on a Namespace: adds the key or overwrites it
Put(e, k, v) == [x \in DOMAIN e \cup {k} |-> IF x = k THEN v ELSE e[x]]

\* lines 461-465: do_score appends score.message to scoring_errors
add_error(errors, sc) ==
    IF sc.message # NoMessage THEN Append(errors, sc.message) ELSE errors

\* lines 467-472
set_score(e, sc) ==
    LET e1 == Put(Put(e, N("metric"), sc.metric), N("result"), sc.value)
    IN  IF sc.higher_is_better = "False"
        THEN Put(Put(e1, N("metric"), <<"neg_">> \o e1[N("metric")]),
                 N("result"), Negate(e1[N("result")]))
        ELSE e1

\* lines 474-478: the loop over metadata.metrics, from position i on;
\* st = [entry, errors, raised]
RECURSIVE score_metrics(_, _, _, _)
score_metrics(res, metrics, i, st) ==
    IF i > Len(metrics) \/ st.raised THEN st
    ELSE LET metric == metrics[i]
             sc == evaluate(res, metric)
         IN  IF sc.raised THEN [st EXCEPT !.raised = TRUE]
             ELSE LET e1 == Put(st.entry, metric, sc.value)
                      e2 == IF metric = e1[N("metric")] THEN set_score(e1, sc) ELSE e1
                  IN  score_metrics(res, metrics, i + 1,
                          [entry |-> e2, errors |-> add_error(st.errors, sc),
                           raised |-> FALSE])

\* lines 480-481: if 'result' not in entry: set_score(do_score(entry.metric))
score_primary(res, st) ==
    IF st.raised \/ N("result") \in DOMAIN st.entry THEN st
    ELSE LET sc == evaluate(res, st.entry[N("metric")])
         IN  IF sc.raised THEN [st EXCEPT !.raised = TRUE]
             ELSE [entry |-> set_score(st.entry, sc),
                   errors |-> add_error(st.errors, sc), raised |-> FALSE]

\* a truthy info: neither None nor the empty string
NoInfo == <<"None", NoneName>>
\* lines 483-485: the messages joined with "; " are kept as a sequence
entry_info(res, errors) ==
    IF errors = <<>> THEN <<res.info>>
    ELSE SelectSeq(<<res.info>> \o errors, LAMBDA it : it # NoInfo)

RaisedEntry == [raised |-> TRUE, fields |-> [k \in {} |-> NaN]]

\* compute_score with metadata.metric = primary and metadata.metrics = metrics
\* (the identity, timing and side-channel fields of the entry are left out)
compute_score(res, primary, metrics) ==
    LET st0 == [entry |-> [k \in {N("metric")} |-> primary], errors |-> <<>>,
                raised |-> FALSE]
        st1 == score_metrics(res, metrics, 1, st0)
        st2 == score_primary(res, st1)
    IN  IF st2.raised THEN RaisedEntry
        ELSE [raised |-> FALSE,
              fields |-> Put(st2.entry, N("info"), entry_info(res, st2.errors))]

(***************************************************************************)
(* Prediction tables, TaskResult.validate_predictions and the constructors *)
(***************************************************************************)
\* bound: number of columns of a prediction table
MaxCols == 4

\* the column names of the tables, in lexicographic order
PredColsSorted == <<"0.5", "a", "b", "predictions", "repeated_abs_seasonal_error",
                    "repeated_item_id", "truth">>
PredCols == Range(PredColsSorted)

\* what the data of a table can be like, besides its columns:
\*   malformed   - read_csv fails on the file
\*   nonfinite   - a prediction is NaN or Inf
\*   irregular   - the repeated_item_id groups differ in length
\*   argmax      - a row's prediction is not its most probable class
\*   unknownpred - a predicted label is not one of the class columns
\*   encoder     - the label encoder rejects a truth or prediction label
Issues == {"none", "malformed", "nonfinite", "irregular", "argmax",
           "unknownpred", "encoder"}

\* a table: its columns (read_csv keeps them distinct), the position of the
\* column holding a non-numeric text value (0: none) and its data issue
IsTable(t) == t.nonnum <= Len(t.cols)

Tables ==
    {t \in [cols : {x \in SeqsOf(PredCols, 1, MaxCols) : IsDistinct(x)},
            nonnum : 0..MaxCols, issue : Issues] : IsTable(t)}

NoTable == [cols |-> <<>>, nonnum |-> 0, issue |-> "none"]

\* np.array_equal(predictors, np.sort(predictors))
IsSorted(names) ==
    \A i \in 1..(Len(names) - 1) :
        IndexOf(PredColsSorted, names[i]) <= IndexOf(PredColsSorted, names[i + 1])

\* validate_predictions: "ok", or the check that fails first
\* (_encode_predictions_and_truth_ is False)
validate_predictions(t) ==
    LET names == t.cols
        n == Len(names)
    IN  IF n < 2 THEN "columns"
        ELSE IF names[n] # "truth" THEN "truth"
        ELSE IF names[n - 1] # "predictions" THEN "predictions"
        ELSE IF n = 2
        THEN IF t.nonnum # 0 THEN "to_numeric" ELSE "ok"
        ELSE IF ~IsSorted(SubSeq(names, 1, n - 2)) THEN "sorted"
        ELSE IF ~IsDistinct(SubSeq(names, 1, n - 2)) THEN "unique"
        ELSE IF t.nonnum \in 1..(n - 2) THEN "to_numeric"
        ELSE IF t.issue = "unknownpred" THEN "unexpected"
        ELSE IF t.issue = "argmax" THEN "argmax"
        ELSE "ok"

\* Result.__init__: df.iloc[:, -1] and df.iloc[:, -2]
Result_init_raises(t) == Len(t.cols) < 2

\* RegressionResult.__init__: the last column is cast to float
RegressionResult_init_raises(t) ==
    Result_init_raises(t) \/ t.nonnum = Len(t.cols)

\* ClassificationResult.__init__: the probability columns are cast to float,
\* truth and predictions go through the label encoder
ClassificationResult_init_raises(t) ==
    \/ Result_init_raises(t)
    \/ t.nonnum \in 1..(Len(t.cols) - 2)
    \/ t.issue = "encoder"

required_columns == {"truth", "predictions", "repeated_item_id",
                     "repeated_abs_seasonal_error"}
\* column.startswith('0.')
IsQuantileColumn(c) == c \in {"0.5"}

\* TimeSeriesResult.__init__
TimeSeriesResult_init_raises(t) ==
    \/ RegressionResult_init_raises(t)
    \/ required_columns \ Range(t.cols) # {}
    \/ \E i \in 1..Len(t.cols) :
          t.cols[i] \notin required_columns /\ ~IsQuantileColumn(t.cols[i])
    \/ t.nonnum # 0 /\ t.cols[t.nonnum] # "repeated_item_id"
    \/ t.issue = "nonfinite"
    \/ t.issue = "irregular"

\* lines 250-256: the class load_predictions picks for a table
dispatch_two_columns_classify(cols) ==
    IF "repeated_item_id" \in Range(cols) THEN "TimeSeriesResult"
    ELSE IF Len(cols) >= 2 THEN "ClassificationResult"
    ELSE "RegressionResult"
dispatch(cols) ==
    IF "repeated_item_id" \in Range(cols) THEN "TimeSeriesResult"
    ELSE IF Len(cols) > 2 THEN "ClassificationResult"
    ELSE "RegressionResult"

init_raises(kind, t) ==
    CASE kind = "TimeSeriesResult"     -> TimeSeriesResult_init_raises(t)
      [] kind = "ClassificationResult" -> ClassificationResult_init_raises(t)
      [] OTHER                         -> RegressionResult_init_raises(t)

\* the Result objects
MakeResult(kind, type, info, fails, score) ==
    [kind |-> kind, type |-> type, info |-> info, fails |-> fails, score |-> score]

NoResult(text) == MakeResult("NoResult", "None", <<"NoResult", N(text)>>, FALSE, 0)

\* ErrorResult(ResultError(e)): info is "ResultError: <e>"; `where` names the
\* call that raised e
ErrorResult(where) == MakeResult("ErrorResult", "None", <<"ResultError", N(where)>>, FALSE, 0)

\* an exception left the call: there is no Result
Raised == MakeResult("Raised", "None", NoInfo, FALSE, 0)

\* self.type after construction
TypeOf(kind, t) ==
    CASE kind = "TimeSeriesResult"     -> "timeseries"
      [] kind = "ClassificationResult" ->
            IF Len(t.cols) - 2 = 2 THEN "binary" ELSE "multiclass"
      [] OTHER                         -> "regression"

\* the scorers reject the data: non-numeric predictions of a regression, or
\* non-finite values
DataFails(kind, t) ==
    \/ kind = "RegressionResult" /\ t.nonnum = Len(t.cols) - 1
    \/ t.issue = "nonfinite"

TableResult(t, score) ==
    LET kind == dispatch(t.cols)
    IN  MakeResult(kind, TypeOf(kind, t), NoInfo, DataFails(kind, t), score)

\* TaskResult.load_predictions; score is the value the metrics take on the data
load_predictions_validation_uncaught(f, tm, score) ==
    IF ~f.exists THEN NoResult("Missing predictions.")
    ELSE IF f.table.issue = "malformed" THEN ErrorResult("read_csv")
    ELSE IF tm /\ validate_predictions(f.table) # "ok" THEN Raised
    ELSE IF init_raises(dispatch(f.table.cols), f.table) THEN ErrorResult("__init__")
    ELSE TableResult(f.table, score)
load_predictions(f, tm, score) ==
    IF ~f.exists THEN NoResult("Missing predictions.")
    ELSE IF f.table.issue = "malformed" THEN ErrorResult("read_csv")
    ELSE IF tm /\ validate_predictions(f.table) # "ok"
    THEN ErrorResult("validate_predictions")
    ELSE IF init_raises(dispatch(f.table.cols), f.table) THEN ErrorResult("__init__")
    ELSE TableResult(f.table, score)

(***************************************************************************)
(* Scoreboard.path and Scoreboard.from_file                                *)
(***************************************************************************)
\* A file name is a sequence of characters; a regular expression is a
\* sequence of elements: a literal character, `.` (any character) or a named
\* group (?P<name>[\w\-]+).
Lit(c) == [kind |-> "lit", arg |-> c]
AnyChar == [kind |-> "any", arg |-> ""]
Group(name) == [kind |-> "grp", arg |-> name]
\* the lazy group (?P<name>[\w\-]+?) and the group of digits (?P<name>\d+)
Lazy(name) == [kind |-> "lazy", arg |-> name]
Digits(name) == [kind |-> "dig", arg |-> name]
Lits(str) == [i \in 1..Len(str) |-> Lit(str[i])]

\* the characters [\w\-] matches, among those the names are written with
WordChars == {"a", "b", "c", "d", "e", "h", "k", "l", "m", "n", "o", "r", "s", "t",
              "u", "v", "x", "_", "-", "0", "1"}
\* the characters \d matches
DigitChars == {"0", "1"}

NoMatch == [ok |-> FALSE, groups |-> <<>>]

\* the length of the run of [\w\-] characters of str that starts at si
RECURSIVE WordRun(_, _)
WordRun(str, si) ==
    IF si <= Len(str) /\ str[si] \in WordChars THEN 1 + WordRun(str, si + 1) ELSE 0

\* the length of the run of digits of str that starts at si
RECURSIVE DigitRun(_, _)
DigitRun(str, si) ==
    IF si <= Len(str) /\ str[si] \in DigitChars THEN 1 + DigitRun(str, si + 1) ELSE 0

RECURSIVE MatchFrom(_, _, _, _)
RECURSIVE TryGroup(_, _, _, _, _)
RECURSIVE TryLazy(_, _, _, _, _, _)
\* re.fullmatch(pat, str) from element pi and character si on: a group is
\* greedy, it takes the longest run that lets the rest match
MatchFrom(pat, pi, str, si) ==
    IF pi > Len(pat)
    THEN IF si > Len(str) THEN [ok |-> TRUE, groups |-> <<>>] ELSE NoMatch
    ELSE LET el == pat[pi]
         IN  CASE el.kind = "lit" ->
                    IF si <= Len(str) /\ str[si] = el.arg
                    THEN MatchFrom(pat, pi + 1, str, si + 1) ELSE NoMatch
               [] el.kind = "any" ->
                    IF si <= Len(str)
                    THEN MatchFrom(pat, pi + 1, str, si + 1) ELSE NoMatch
               [] el.kind = "lazy" ->
                    TryLazy(pat, pi, str, si, 1, WordRun(str, si))
               [] el.kind = "dig" ->
                    TryGroup(pat, pi, str, si, DigitRun(str, si))
               [] OTHER -> TryGroup(pat, pi, str, si, WordRun(str, si))
TryGroup(pat, pi, str, si, k) ==
    IF k < 1 THEN NoMatch
    ELSE LET rest == MatchFrom(pat, pi + 1, str, si + k)
         IN  IF rest.ok
             THEN [ok |-> TRUE,
                   groups |-> <<<<pat[pi].arg, SubSeq(str, si, si + k - 1)>>>>
                              \o rest.groups]
             ELSE TryGroup(pat, pi, str, si, k - 1)

\* a lazy group takes the shortest run, of k..max characters, that lets
\* the rest match
TryLazy(pat, pi, str, si, k, max) ==
    IF k > max THEN NoMatch
    ELSE LET rest == MatchFrom(pat, pi + 1, str, si + k)
         IN  IF rest.ok
             THEN [ok |-> TRUE,
                   groups |-> <<<<pat[pi].arg, SubSeq(str, si, si + k - 1)>>>>
                              \o rest.groups]
             ELSE TryLazy(pat, pi, str, si, k + 1, max)

fullmatch(pat, str) == MatchFrom(pat, 1, str, 1)

\* m.groupdict(): 'name' in d and d['name'] (False when the group is absent)
GroupOr(m, name) ==
    IF \E i \in 1..Len(m.groups) : m.groups[i][1] = name
    THEN m.groups[CHOOSE i \in 1..Len(m.groups) : m.groups[i][1] = name][2]
    ELSE NoneName

\* the separator inside an f-string pattern: `.` is the regex wildcard
SepElem(sp) == IF sp = "." THEN <<AnyChar>> ELSE <<Lit(sp)>>

results_file == <<"r", "e", "s", "u", "l", "t", "s", ".", "c", "s", "v">>
BENCHMARK == <<"b", "e", "n", "c", "h", "m", "a", "r", "k">>
TASK == <<"t", "a", "s", "k">>
DotCsv == <<".", "c", "s", "v">>

\* the pattern a regex source string compiles to: the unescaped `.` of
\* results_file is a wildcard
AsRegex(str) == [i \in 1..Len(str) |-> IF str[i] = "." THEN AnyChar ELSE Lit(str[i])]

\* lines 71-78
patterns(sp) ==
    << AsRegex(results_file),
       <<Group("framework")>> \o SepElem(sp) \o Lits(BENCHMARK) \o SepElem(sp)
            \o <<Group("benchmark")>> \o Lits(DotCsv),
       Lits(BENCHMARK) \o SepElem(sp) \o <<Group("benchmark")>> \o Lits(DotCsv),
       <<Group("framework")>> \o SepElem(sp) \o Lits(TASK) \o SepElem(sp)
            \o <<Group("task")>> \o Lits(DotCsv),
       Lits(TASK) \o SepElem(sp) \o <<Group("task")>> \o Lits(DotCsv),
       <<Group("framework")>> \o Lits(DotCsv) >>

NotFound == [found |-> FALSE, pattern |-> 0, framework_name |-> NoneName,
             benchmark_name |-> NoneName, task_name |-> NoneName]

\* lines 79-94: the patterns are tried in order from the i-th on, the first
\* one that matches decides
RECURSIVE first_match(_, _, _)
first_match(pats, i, name) ==
    IF i > Len(pats) THEN NotFound
    ELSE LET m == fullmatch(pats[i], name)
         IN  IF m.ok
             THEN [found |-> TRUE, pattern |-> i,
                   framework_name |-> GroupOr(m, "framework"),
                   benchmark_name |-> GroupOr(m, "benchmark"),
                   task_name |-> GroupOr(m, "task")]
             ELSE first_match(pats, i + 1, name)

from_file(name, sp) == first_match(patterns(sp), 1, name)

\* lines 215-233: the file name of Scoreboard.path (scores_dir left out)
path(b, sp) ==
    IF b.framework_name # NoneName
    THEN IF b.task_name # NoneName
         THEN b.framework_name \o <<sp>> \o TASK \o <<"_">> \o b.task_name \o DotCsv
         ELSE IF b.benchmark_name # NoneName
         THEN b.framework_name \o <<sp>> \o BENCHMARK \o <<"_">> \o b.benchmark_name \o DotCsv
         ELSE b.framework_name \o DotCsv
    ELSE IF b.task_name # NoneName
         THEN TASK \o <<"_">> \o b.task_name \o DotCsv
         ELSE IF b.benchmark_name # NoneName
         THEN BENCHMARK \o <<"_">> \o b.benchmark_name \o DotCsv
         ELSE results_file

(***************************************************************************)
(* TaskResult.score_from_predictions_file                                  *)
(***************************************************************************)
\* line 391: file_pat
file_pat(sp) ==
    <<Lazy("framework")>> \o SepElem(sp) \o <<Group("task")>> \o SepElem(sp)
        \o <<Digits("fold")>> \o Lits(DotCsv)

\* int(file_g['fold']) on a string of digits
DigitValue(c) == IF c = "1" THEN 1 ELSE 0
RECURSIVE int(_)
int(str) ==
    IF str = <<>> THEN 0
    ELSE 10 * int(SubSeq(str, 1, Len(str) - 1)) + DigitValue(str[Len(str)])

\* return None: the file name has the wrong format
NoFileG == [found |-> FALSE, framework |-> NoneName, task |-> NoneName, fold |-> 0]

\* lines 380-411 for a path without folder: the framework the file name
\* gives, and the task name and fold the TaskResult is built with and that
\* compute_score writes to the entry (entry.task, entry.fold)
score_from_predictions_file(name, sp) ==
    LET file_m == fullmatch(file_pat(sp), name)
    IN  IF ~file_m.ok THEN NoFileG
        ELSE [found |-> TRUE,
              framework |-> GroupOr(file_m, "framework"),
              task |-> GroupOr(file_m, "task"),
              fold |-> int(GroupOr(file_m, "fold"))]

(***************************************************************************)
(* Values the variables of the other specifications rest at                *)
(***************************************************************************)
NoResultYet == MakeResult("None", "None", NoInfo, FALSE, 0)

LoadIdle ==
    /\ predFile = [exists |-> FALSE, table |-> NoTable] /\ test_mode = FALSE

ScoreIdle ==
    /\ metadata = [metric |-> NoneName, metrics |-> <<>>]
    /\ entry = RaisedEntry
    /\ lastEval = EvalRaised(NoneName)

NoBoard == [framework_name |-> NoneName, benchmark_name |-> NoneName,
            task_name |-> NoneName]

NameIdle ==
    /\ sep = "_" /\ board = NoBoard /\ basename = <<>> /\ parsed = NotFound

LedgerIdle ==
    /\ file = NoFile /\ backups = <<>> /\ calls = <<>> /\ saves = 0
    /\ saved = [frame |-> [columns |-> <<>>, rows |-> <<>>], append |-> FALSE]

PredNameIdle == file_g = NoFileG

EmptyFrame == [columns |-> <<>>, rows |-> <<>>]

BoardIdle ==
    /\ scores = EmptyFrame
    /\ appended = [self |-> EmptyFrame, other |-> EmptyFrame, no_duplicates |-> FALSE]

NoData == [kind |-> "none"]

DataIdle == table = NoData /\ built = NoData

(***************************************************************************)
(* Spec: the ledger file under successive save_df calls                    *)
(***************************************************************************)
Init ==
    /\ LedgerIdle
    /\ LoadIdle /\ ScoreIdle /\ pc = "idle" /\ result = NoResultYet
    /\ NameIdle /\ PredNameIdle /\ BoardIdle /\ DataIdle

Next == SaveDfAction

Spec == Init /\ [][Next]_vars

\* the last save_df rewrote the file from scratch (mode 'w')
Rewrote(c) == "write_csv_w" \in Range(c)
\* the last save_df appended the data lines to the file (mode 'a')
Appended(c) == "write_csv_a" \in Range(c)
\* backup_file was called, and before write_csv
BackedUpFirst(c) ==
    /\ "backup_file" \in Range(c)
    /\ IndexOf(c, "backup_file") < IndexOf(c, "write_csv_w")

\* C1: every save_df that finds a file at path and rewrites it from scratch
\* (append false, or header differing from the frame's columns) calls
\* backup_file before write_csv, and the backup holds the file as it was.
C1_BackupBeforeOverwrite ==
    [][(file.exists /\ saves' = saves + 1 /\ Rewrote(calls'))
        => (BackedUpFirst(calls') /\ backups' = Append(backups, file))]_vars

C1_Witness ==
    /\ saves >= 2 /\ ~saved.append /\ Rewrote(calls)
    /\ Len(backups) >= 1 /\ backups[Len(backups)].exists

\* C2: after save_df(frame, path, append=True) found a header differing from
\* frame's columns, the header it wrote is exactly frame's column sequence
\* (a following save_df of a frame with these columns detects no drift).
C2_DriftAppendWritesFrameSchema ==
    (saves >= 1 /\ saved.append /\ "read_csv" \in Range(calls))
        => (file.header = saved.frame.columns
            /\ ~new_format(read_csv(file).columns, saved.frame.columns))

History(f) ==
    [i \in 1..Len(f.rows) |-> Range(f.rows[i]) \ {NaNCell}]
\* one header line, and every cell stands under the column it was written for
WellFormed(f) ==
    /\ f.header # <<>> /\ IsDistinct(f.header)
    /\ \A i \in 1..Len(f.rows) :
          /\ Len(f.rows[i]) = Len(f.header)
          /\ \A j \in 1..Len(f.header) :
                f.rows[i][j] = NaNCell \/ f.rows[i][j][2] = f.header[j]

\* C17: every save_df(frame, path, append=True), with or without schema
\* drift, leaves a file with one header line that holds every row the file
\* held before, in the same order and each cell under its own column,
\* followed by the rows of frame: a sequence of appends loses no history.
C17_AppendKeepsHistory ==
    [][(saves' = saves + 1 /\ saved'.append)
        => /\ WellFormed(file')
           /\ History(file') = History(file) \o History(read_csv(
                    [exists |-> TRUE, header |-> saved'.frame.columns,
                     rows |-> saved'.frame.rows]))]_vars

\* the third save appended under a drifted schema to a file already
\* rewritten once for drift, and the three rows are in the file in write order
C17_Witness ==
    /\ saves = 3 /\ saved.append /\ "read_csv" \in Range(calls)
    /\ Len(file.rows) = 3 /\ Len(backups) = 2
    /\ \A k \in 1..3 : \E c \in LedgerCols : Cell(k, c) \in History(file)[k]

(***************************************************************************)
(* SpecLoad: TaskResult.load_predictions on a predictions file             *)
(***************************************************************************)
\* bound: the values a metric takes on a table are 1..MaxScore
MaxScore == 2

InitLoad ==
    /\ LedgerIdle /\ ScoreIdle /\ NameIdle /\ PredNameIdle /\ BoardIdle /\ DataIdle
    /\ pc = "start" /\ result = NoResultYet
    /\ test_mode \in BOOLEAN
    /\ predFile \in {[exists |-> FALSE, table |-> NoTable]}
                    \cup {[exists |-> TRUE, table |-> t] : t \in Tables}

LoadPredictions ==
    /\ pc = "start"
    /\ \E score \in 1..MaxScore :
          result' = load_predictions(predFile, test_mode, score)
    /\ pc' = "loaded"
    /\ UNCHANGED <<loadVars, scoreVars, ledgerVars, nameVars, extVars>>

NextLoad == LoadPredictions

SpecLoad == InitLoad /\ [][NextLoad]_vars

\* a failure while reading, validating or constructing, stated on the table
ReadFails(t) == t.issue = "malformed"
Violates(t) == validate_predictions(t) # "ok"
ConstructionFails(t) ==
    LET n == Len(t.cols)
    IN  \/ n < 2
        \/ IF "repeated_item_id" \in Range(t.cols)
           THEN TimeSeriesResult_init_raises(t)
           ELSE IF n > 2 THEN ClassificationResult_init_raises(t)
           ELSE RegressionResult_init_raises(t)

\* C7: load_predictions never lets an exception out; a missing file gives
\* NoResult; an existing file gives ErrorResult when reading, validating (in
\* test mode) or constructing fails, and otherwise TimeSeriesResult iff the
\* table has a repeated_item_id column, else ClassificationResult iff it has
\* more than two columns, else RegressionResult.
C7_LoadNeverRaises ==
    pc = "loaded" =>
        LET t == predFile.table
        IN  /\ result.kind # "Raised"
            /\ ~predFile.exists => result.kind = "NoResult"
            /\ predFile.exists =>
                IF ReadFails(t) \/ (test_mode /\ Violates(t)) \/ ConstructionFails(t)
                THEN result.kind = "ErrorResult"
                ELSE /\ result.kind = "TimeSeriesResult"
                            <=> "repeated_item_id" \in Range(t.cols)
                     /\ result.kind = "ClassificationResult"
                            <=> ("repeated_item_id" \notin Range(t.cols) /\ Len(t.cols) > 2)
                     /\ result.kind = "RegressionResult"
                            <=> ("repeated_item_id" \notin Range(t.cols) /\ Len(t.cols) <= 2)

\* a well-formed two-column table was loaded as a RegressionResult, and a
\* failing construction was turned into an ErrorResult
C7_Witness ==
    /\ pc = "loaded" /\ predFile.exists /\ Len(predFile.table.cols) = 2
    /\ result.kind = "RegressionResult"

\* the table of an existing, readable file breaks the contract of
\* validate_predictions while test mode is on
StrictViolation ==
    /\ pc = "loaded" /\ test_mode /\ predFile.exists
    /\ ~ReadFails(predFile.table) /\ Violates(predFile.table)

\* C8 (as claimed): in test mode a table violating validate_predictions is
\* fatal: the violation leaves load_predictions and reaches the caller of
\* TaskResult, no Result (hence no entry) is produced.
C8_ViolationPropagates ==
    StrictViolation => result.kind = "Raised"

\* C8 (amended): in test mode a table violating validate_predictions is
\* captured by load_predictions and returned as an ErrorResult naming the
\* violation; compute_score then still produces an entry, with a NaN result
\* and the violation in info.
C8_ViolationCaptured ==
    StrictViolation =>
        /\ result = ErrorResult("validate_predictions")
        /\ \A m \in {N("acc"), N("rmse")} :
              LET e == compute_score(result, m, <<m>>)
              IN  /\ ~e.raised
                  /\ e.fields[N("result")] = NaN
                  /\ e.fields[m] = NaN
                  /\ e.fields[N("info")] = <<result.info>>

\* unsorted class columns in test mode
C8_Witness ==
    /\ StrictViolation
    /\ validate_predictions(predFile.table) \in {"sorted", "argmax"}
    /\ result.kind = "ErrorResult"

(***************************************************************************)
(* SpecScore: evaluate and compute_score on a Result                       *)
(***************************************************************************)
\* bound: number of metrics declared in metadata.metrics
MaxMetrics == 2

\* the metric names a run may declare or ask for: metrics of either
\* direction, one that raises on multiclass results, a name no class has,
\* a private helper and a field of the Result classes
MetricInputs ==
    {N("acc"), N("logloss"), N("auc"), N("rmse"), <<"neg_", "rmse">>,
     N("_cm"), N("truth")}

\* the Results load_predictions returns (compute_score also takes one as
\* its `result` argument)
ResultSpace ==
    {NoResult("Missing predictions.")}
    \cup {ErrorResult(w) : w \in {"read_csv", "validate_predictions", "__init__"}}
    \cup {MakeResult(k[1], k[2], NoInfo, f, v) :
            k \in {<<"ClassificationResult", "binary">>,
                   <<"ClassificationResult", "multiclass">>,
                   <<"RegressionResult", "regression">>,
                   <<"TimeSeriesResult", "timeseries">>},
            f \in BOOLEAN, v \in 1..MaxScore}

InitScore ==
    /\ LedgerIdle /\ LoadIdle /\ ScoreIdle /\ NameIdle
    /\ PredNameIdle /\ BoardIdle /\ DataIdle
    /\ pc = "loaded"
    /\ result \in ResultSpace

\* result.evaluate(m), called on its own
Evaluate ==
    /\ pc = "loaded"
    /\ \E m \in MetricInputs \cup {NoneName} : lastEval' = evaluate(result, m)
    /\ pc' = "evaluated"
    /\ UNCHANGED <<loadVars, result, metadata, entry, ledgerVars, nameVars, extVars>>

\* TaskResult.compute_score for a run whose metadata declares metric/metrics
ComputeScore ==
    /\ pc = "loaded"
    /\ \E primary \in MetricInputs \cup {NoneName},
          metrics \in SeqsOf(MetricInputs, 0, MaxMetrics) :
          /\ metadata' = [metric |-> primary, metrics |-> metrics]
          /\ entry' = compute_score(result, primary, metrics)
    /\ pc' = "scored"
    /\ UNCHANGED <<loadVars, result, lastEval, ledgerVars, nameVars, extVars>>

NextScore == Evaluate \/ ComputeScore

SpecScore == InitScore /\ [][NextScore]_vars

\* compute_score returned for a run that declares its primary metric
Scored == pc = "scored" /\ metadata.metric # NoneName

\* C4: the entry carries the primary metric normalised to higher-is-better:
\* a lower-is-better primary metric m of value v gives metric = "neg_" + m
\* and result = -v; any other direction gives metric = m and result = v.
C4_PrimaryNormalised ==
    (Scored /\ ~entry.raised) =>
        LET m  == metadata.metric
            sc == evaluate(result, m)
        IN  IF sc.higher_is_better = "False"
            THEN /\ entry.fields[N("metric")] = <<"neg_">> \o m
                 /\ entry.fields[N("result")] = Negate(sc.value)
            ELSE /\ entry.fields[N("metric")] = m
                 /\ entry.fields[N("result")] = sc.value

\* the metric computation raises, or the Result has no such attribute
FailsOrUnsupported(res, m) ==
    \/ IsNoResult(res)
    \/ m \in MetricsOf(res.kind) /\ metric_raises(res, m)
    \/ ~hasattr(res, m)

Evaluated == pc = "evaluated" /\ lastEval.metric # NoneName

\* C6: on a Result built from a prediction table, a metric name that is not
\* one of the metrics implemented for its type evaluates to NaN with
\* direction unknown and an advisory message, and evaluate does not raise.
C6_UnimplementedIsNaN ==
    (Evaluated /\ ~IsNoResult(result)
        /\ lastEval.metric \notin MetricsOf(result.kind)) =>
            /\ ~lastEval.raised
            /\ lastEval.value = NaN
            /\ lastEval.higher_is_better = "None"
            /\ lastEval.message # NoMessage

\* C9: NoResult and ErrorResult evaluate every metric name to NaN; the
\* direction is the registered one when the name is in the registry, and
\* otherwise unknown, with an "unsupported metric" message.
C9_NoResultEvaluate ==
    (Evaluated /\ IsNoResult(result)) =>
        LET m == lastEval.metric
        IN  /\ ~lastEval.raised
            /\ lastEval.value = NaN
            /\ IF m \in supported_metrics
               THEN /\ lastEval.higher_is_better
                          = (IF m \in LowerIsBetter THEN "False" ELSE "True")
                    /\ lastEval.message = NoMessage
               ELSE /\ lastEval.higher_is_better = "None"
                    /\ lastEval.message = <<"Unsupported", m>>

\* a lower-is-better registered metric was asked of an ErrorResult
C9_Witness ==
    /\ Evaluated /\ result.kind = "ErrorResult"
    /\ lastEval.metric = N("logloss") /\ lastEval.higher_is_better = "False"
    /\ lastEval.value = NaN

(***************************************************************************)
(* SpecName: Scoreboard.path, then Scoreboard.from_file on its file name   *)
(***************************************************************************)
\* bound: number of pieces a name is made of
MaxPieces == 2

\* the pieces names are made of: word characters, a hyphen, and the words
\* the file name patterns use
Pieces == {<<"x", "-">>, <<"_">>, TASK, BENCHMARK,
           <<"r", "e", "s", "u", "l", "t", "s">>}

RECURSIVE Flatten(_)
Flatten(ss) == IF ss = <<>> THEN <<>> ELSE Head(ss) \o Flatten(Tail(ss))

\* the names: one to MaxPieces pieces, written out
Names == {Flatten(ps) : ps \in SeqsOf(Pieces, 1, MaxPieces)}

\* rconfig().token_separator
Separators == {"_", "."}

InitName ==
    /\ LedgerIdle /\ LoadIdle /\ ScoreIdle /\ result = NoResultYet
    /\ PredNameIdle /\ BoardIdle /\ DataIdle
    /\ pc = "named"
    /\ sep \in Separators
    /\ board \in [framework_name : Names \cup {NoneName},
                  benchmark_name : Names \cup {NoneName},
                  task_name : Names \cup {NoneName}]
    /\ basename = <<>> /\ parsed = NotFound

Path ==
    /\ pc = "named"
    /\ basename' = path(board, sep)
    /\ pc' = "pathed"
    /\ UNCHANGED <<sep, board, parsed, loadVars, result, scoreVars, ledgerVars, extVars>>

FromFile ==
    /\ pc = "pathed"
    /\ parsed' = from_file(basename, sep)
    /\ pc' = "parsed"
    /\ UNCHANGED <<sep, board, basename, loadVars, result, scoreVars, ledgerVars, extVars>>

NextName == Path \/ FromFile

SpecName == InitName /\ [][NextName]_vars

\* C10: from_file applied to the file name path produces for a triple of
\* names made of word characters and hyphens recovers the triple: the same
\* framework, and the same task when a task is set, otherwise the same
\* benchmark (stated for the separator "_", the one the file name patterns
\* are documented with).
C10_PathRoundTrip ==
    (pc = "parsed" /\ sep = "_") =>
        /\ parsed.found
        /\ parsed.framework_name = board.framework_name
        /\ IF board.task_name # NoneName
           THEN parsed.task_name = board.task_name
           ELSE parsed.benchmark_name = board.benchmark_name

(***************************************************************************)
(* SpecPredName: TaskResult.score_from_predictions_file on a file name     *)
(***************************************************************************)
AUTOSKLEARN == <<"a", "u", "t", "o", "s", "k", "l", "e", "a", "r", "n">>
ADULT == <<"a", "d", "u", "l", "t">>

\* the parts predictions file names are written with: a framework, a task
\* and a fold (the last one is no number)
PredFrameworks == {AUTOSKLEARN, <<"x", "-">>, <<"a", "_", "b">>}
PredTasks == {ADULT, TASK \o <<"_">> \o ADULT, <<"x", "-">>, <<"1">>}
PredFolds == {<<"0">>, <<"1">>, <<"0", "1">>, <<"x">>}

PredFileName(fw, task, fold, sp) ==
    fw \o <<sp>> \o task \o <<sp>> \o fold \o DotCsv

InitPredName ==
    /\ LedgerIdle /\ LoadIdle /\ ScoreIdle /\ result = NoResultYet
    /\ BoardIdle /\ DataIdle
    /\ pc = "named"
    /\ sep \in Separators
    /\ board = NoBoard /\ parsed = NotFound
    /\ basename \in {PredFileName(fw, task, fold, sep) :
                        fw \in PredFrameworks, task \in PredTasks, fold \in PredFolds}
    /\ file_g = NoFileG

ScoreFromPredictionsFile ==
    /\ pc = "named"
    /\ file_g' = score_from_predictions_file(basename, sep)
    /\ pc' = "file_scored"
    /\ UNCHANGED <<nameVars, loadVars, result, scoreVars, ledgerVars, boardVars, dataVars>>

NextPredName == ScoreFromPredictionsFile

SpecPredName == InitPredName /\ [][NextPredName]_vars

\* C11: with the token separator "_", score_from_predictions_file on
\* autosklearn_task_adult_0.csv recovers framework "autosklearn", task "adult"
\* and fold 0, and scores the run under that task name and fold.
C11_RecoversTaskAndFold ==
    (pc = "file_scored" /\ sep = "_"
        /\ basename = PredFileName(AUTOSKLEARN, TASK \o <<"_">> \o ADULT, <<"0">>, "_"))
    => /\ file_g.found
       /\ file_g.framework = AUTOSKLEARN
       /\ file_g.task = ADULT
       /\ file_g.fold = 0

(***************************************************************************)
(* Scoreboard.as_data_frame and Scoreboard.append                          *)
(***************************************************************************)
\* lines 149-150
fixed_cols == <<"id", "task", "framework", "constraint", "fold", "type", "result",
                "metric", "mode", "version", "params", "app_version", "utc",
                "duration", "training_duration", "predict_duration",
                "models_count", "seed", "info">>

\* the other columns the entries of the model have, in the order list.sort()
\* gives them: metrics, and the dynamic inference-time column of line 456
DynamicColsSorted == <<"acc", "infer_batch_size_file_1", "mase", "rmse">>

\* dir(ClassificationResult), dir(RegressionResult): the attributes of the
\* classes (instance fields are no class attributes)
dir_ClassificationResult ==
    ClassificationMetrics \cup {N("evaluate"), N("multi_class_average"),
        N("_autoencode"), N("_auc_multi"), N("_cm"), N("_fbeta"),
        N("_per_class_errors")}
dir_RegressionResult == RegressionMetrics \cup {N("evaluate")}

\* col.startswith('_')
startswith_underscore(col) ==
    col \in {"_autoencode", "_auc_multi", "_cm", "_fbeta", "_per_class_errors"}

\* lines 152-154: the test a column passes to be one of metrics_cols
is_metrics_col(col) ==
    /\ N(col) \in dir_ClassificationResult \/ N(col) \in dir_RegressionResult
    /\ ~startswith_underscore(col)

\* list.sort() on column names
sort(cols) ==
    SortSeq(cols, LAMBDA a, b : IndexOf(DynamicColsSorted, a) < IndexOf(DynamicColsSorted, b))

\* lines 152-155
metrics_cols(columns) == sort(SelectSeq(columns, is_metrics_col))

\* lines 156-160
dynamic_cols(columns) ==
    LET fixed == Range(fixed_cols)
        metrics == Range(metrics_cols(columns))
    IN  sort(SelectSeq(columns, LAMBDA col : col \notin fixed /\ col \notin metrics))

\* df.reindex(columns=...)
reindex(df, columns) ==
    [columns |-> columns,
     rows |-> [i \in 1..Len(df.rows) |-> Reindex(df.rows[i], df.columns, columns)]]

\* lines 140-163 (df.empty: no row or no column)
as_data_frame(df) ==
    IF df.rows = <<>> \/ df.columns = <<>> THEN df
    ELSE reindex(df, fixed_cols \o metrics_cols(df.columns) \o dynamic_cols(df.columns))

\* pandas drop_duplicates(): of the rows equal in every column (NaN equals
\* NaN) the first one is kept
drop_duplicates_keeps_all(df) == df
drop_duplicates(df) ==
    LET keep(i) == \A j \in 1..(i - 1) : df.rows[j] # df.rows[i]
        kept == SelectSeq([i \in 1..Len(df.rows) |-> i], keep)
    IN  [columns |-> df.columns, rows |-> [k \in 1..Len(kept) |-> df.rows[kept[k]]]]

\* lines 204-213: the scores of the Scoreboard self.append(other) returns,
\* other being a Scoreboard
append(self, other, no_duplicates) ==
    LET to_append == as_data_frame(other)
        all == DataFrameAppend(as_data_frame(self), to_append)
    IN  IF no_duplicates THEN drop_duplicates(all) ELSE all

(***************************************************************************)
(* SpecBoard: a Scoreboard under successive append calls                   *)
(***************************************************************************)
\* bound: a scoreboard of this many rows is appended to itself only, one of
\* more rows is not appended to
MaxBoardRows == 2

\* the columns of the entries a scoreboard is built from
EntryCols == {"acc", "infer_batch_size_file_1", "mase"}
EntryColumnSeqs == {c \in SeqsOf(EntryCols, 1, Cardinality(EntryCols)) : IsDistinct(c)}

\* the values the cells of an entry take
EntryValues == {1, 2}

\* the scores of a scoreboard of one entry
Entries == {NewFrame(cols, v) : cols \in EntryColumnSeqs, v \in EntryValues}

\* the scoreboards appended to another one: one entry, its columns in
\* reverse alphabetical order
Descending(cols) ==
    \A i \in 1..(Len(cols) - 1) :
        IndexOf(DynamicColsSorted, cols[i]) > IndexOf(DynamicColsSorted, cols[i + 1])
AppendedEntries == {df \in Entries : Descending(df.columns)}

InitBoard ==
    /\ LedgerIdle /\ LoadIdle /\ ScoreIdle /\ result = NoResultYet
    /\ NameIdle /\ PredNameIdle /\ DataIdle
    /\ pc = "board"
    /\ scores \in Entries
    /\ appended = [self |-> EmptyFrame, other |-> EmptyFrame, no_duplicates |-> FALSE]

\* b = b.append(other, no_duplicates), other being another scoreboard
AppendBoard ==
    /\ Len(scores.rows) < MaxBoardRows
    /\ \E other \in AppendedEntries, no_duplicates \in BOOLEAN :
          /\ scores' = append(scores, other, no_duplicates)
          /\ appended' = [self |-> scores, other |-> other,
                          no_duplicates |-> no_duplicates]
    /\ pc' = "appended"
    /\ UNCHANGED <<ledgerVars, loadVars, result, scoreVars, nameVars, file_g, dataVars>>

\* b = b.append(b, no_duplicates)
AppendSelf ==
    /\ Len(scores.rows) <= MaxBoardRows
    /\ \E no_duplicates \in BOOLEAN :
          /\ scores' = append(scores, scores, no_duplicates)
          /\ appended' = [self |-> scores, other |-> scores,
                          no_duplicates |-> no_duplicates]
    /\ pc' = "self_appended"
    /\ UNCHANGED <<ledgerVars, loadVars, result, scoreVars, nameVars, file_g, dataVars>>

NextBoard == AppendBoard \/ AppendSelf

SpecBoard == InitBoard /\ [][NextBoard]_vars

\* the row count of a scoreboard: that of its as_data_frame()
RowCount(df) == Len(as_data_frame(df).rows)
\* the number of distinct rows
DistinctRowCount(df) == Cardinality(Range(as_data_frame(df).rows))

\* C12 (as claimed): b.append(b) has the row count of b, whatever b is, and
\* b.append(b, no_duplicates=False) has twice the row count of b.
C12_SelfAppendKeepsRowCount ==
    pc = "self_appended" =>
        IF appended.no_duplicates
        THEN RowCount(scores) = RowCount(appended.self)
        ELSE RowCount(scores) = 2 * RowCount(appended.self)

\* C12 (amended): b.append(b) has as many rows as b has distinct rows: the
\* row count of b when no two rows of b are equal, fewer when b holds
\* duplicate rows; b.append(b, no_duplicates=False) has twice the row count
\* of b.
C12_SelfAppendDistinctRows ==
    pc = "self_appended" =>
        IF appended.no_duplicates
        THEN /\ RowCount(scores) = DistinctRowCount(appended.self)
             /\ IsDistinct(as_data_frame(appended.self).rows)
                    => RowCount(scores) = RowCount(appended.self)
             /\ RowCount(scores) <= RowCount(appended.self)
        ELSE RowCount(scores) = 2 * RowCount(appended.self)

\* a scoreboard of two different rows was appended to itself with
\* de-duplication and kept its two rows
C12_Witness ==
    /\ pc = "self_appended" /\ appended.no_duplicates
    /\ RowCount(appended.self) = 2 /\ DistinctRowCount(appended.self) = 2
    /\ RowCount(scores) = 2

\* the columns named after a metric of the registry
IsRegistryMetric(col) == N(col) \in supported_metrics

\* C13: the columns of as_data_frame() of a non-empty scoreboard are the
\* fixed columns in canonical order, then the columns named after a metric
\* of the registry in alphabetical order, then the remaining columns in
\* alphabetical order.
C13_ColumnOrder ==
    scores.rows # <<>> =>
        LET given == scores.columns
            rest(col) == col \notin Range(fixed_cols) /\ ~IsRegistryMetric(col)
        IN  as_data_frame(scores).columns =
                fixed_cols \o sort(SelectSeq(given, IsRegistryMetric))
                           \o sort(SelectSeq(given, rest))

(***************************************************************************)
(* TimeSeriesResult.__init__ on the cells of a prediction table            *)
(***************************************************************************)
\* cell values besides Num and NaN: an infinite number, a text
Inf == <<"inf", 0>>
Text(x) == <<"text", x>>

\* np.isfinite(v)
isfinite(v) == v[1] = "num"
\* values.astype(float) raises ValueError on a text
astype_float_raises(values) == \E i \in 1..Len(values) : values[i][1] = "text"

\* A time-series table: its columns in file order, the item id of each row
\* (numbers or texts), the point forecast of each row and the quantile
\* forecast of the first row (used when the table has the column "0.5").
\* truth, the seasonal error and the other quantile forecasts are finite,
\* any other column holds numbers.
Column(t, c) ==
    [i \in 1..Len(t.ids) |->
        CASE c = "predictions"      -> t.pred[i]
          [] c = "0.5"              -> IF i = 1 THEN t.q ELSE Num(1)
          [] c = "repeated_item_id" -> IF t.text_ids THEN Text(t.ids[i]) ELSE Num(t.ids[i])
          [] c = "truth"            -> Num(2)
          [] OTHER                  -> Num(1)]

\* np.unique(item_ids, return_counts=True): the number of rows of each
\* item id, in the order of the sorted ids
unique_counts(ids) ==
    LET first(i) == \A j \in 1..(i - 1) : ids[j] # ids[i]
        firsts == SelectSeq([i \in 1..Len(ids) |-> i], first)
        uniq == SortSeq([k \in 1..Len(firsts) |-> ids[firsts[k]]], LAMBDA a, b : a < b)
    IN  [k \in 1..Len(uniq) |-> Cardinality({i \in 1..Len(ids) : ids[i] = uniq[k]})]

\* line 714
has_nonfinite(values) == \E i \in 1..Len(values) : ~isfinite(values[i])

\* line 718: len(set(unique_item_ids_counts)) != 1
lengths_never_differ(counts) == FALSE
lengths_differ(counts) == Cardinality(Range(counts)) # 1

\* what a constructor call gives: the exception it raised, or the object
Raises(error, lengths) ==
    [raised |-> TRUE, error |-> error, lengths |-> lengths,
     truth |-> <<>>, predictions |-> <<>>]
Constructed(truth, predictions) ==
    [raised |-> FALSE, error |-> "", lengths |-> <<>>,
     truth |-> truth, predictions |-> predictions]

\* lines 501-507, 656-660, 694-719, in program order
TimeSeriesResult_init(t) ==
    LET n == Len(t.cols)
        quantile_columns == SelectSeq(t.cols, IsQuantileColumn)
        unrecognized_columns ==
            SelectSeq(t.cols, LAMBDA c : c \notin required_columns
                                         /\ c \notin Range(quantile_columns))
        counts == unique_counts(t.ids)
    IN  \* Result.__init__: df.iloc[:, -1], df.iloc[:, -2]
        IF n < 2 THEN Raises("IndexError", <<>>)
        \* RegressionResult.__init__: self.truth.astype(float) on the last column
        ELSE IF astype_float_raises(Column(t, t.cols[n])) THEN Raises("ValueError: astype", <<>>)
        ELSE IF required_columns \ Range(t.cols) # {} THEN Raises("Missing columns", <<>>)
        ELSE IF Len(unrecognized_columns) > 0 THEN Raises("unrecognized columns", <<>>)
        ELSE IF \/ has_nonfinite(Column(t, "predictions"))
                \/ \E i \in 1..Len(quantile_columns) :
                      has_nonfinite(Column(t, quantile_columns[i]))
        THEN Raises("NaN or Inf values", <<>>)
        ELSE IF lengths_differ(counts) THEN Raises("different lengths", counts)
        ELSE Constructed(Column(t, "truth"), Column(t, "predictions"))

(***************************************************************************)
(* SpecSeries: TimeSeriesResult(df) on a prediction table                  *)
(***************************************************************************)
\* bound: number of rows of a time-series table
MaxSeriesRows == 3
\* bound: the item ids are 1..MaxItems
MaxItems == 2

\* all orders of a set of columns
Orders(S) == {c \in SeqsOf(S, Cardinality(S), Cardinality(S)) : IsDistinct(c)}

\* the column layouts: the mandatory columns in every order, alone or
\* followed by the quantile column; the quantile column first; a column
\* missing; a column that is neither mandatory nor a quantile
SeriesColumns ==
    Orders(required_columns)
    \cup {c \o <<"0.5">> : c \in Orders(required_columns)}
    \cup {<<"0.5", "truth", "predictions", "repeated_abs_seasonal_error", "repeated_item_id">>,
          <<"0.5", "repeated_item_id", "repeated_abs_seasonal_error", "predictions", "truth">>,
          <<"repeated_item_id", "predictions", "truth">>,
          <<"a", "repeated_abs_seasonal_error", "repeated_item_id", "predictions", "truth">>}

\* the point forecasts of n rows: all finite, or NaN or Inf in one row
PointForecasts(n) ==
    {[i \in 1..n |-> IF i = bad THEN v ELSE Num(1)] : bad \in 0..n, v \in {NaN, Inf}}

SeriesTables ==
    UNION {[cols : SeriesColumns,
            ids : [1..n -> 1..MaxItems],
            text_ids : BOOLEAN,
            pred : PointForecasts(n),
            q : {Num(1), NaN, Inf}] : n \in 1..MaxSeriesRows}

InitSeries ==
    /\ LedgerIdle /\ LoadIdle /\ ScoreIdle /\ result = NoResultYet
    /\ NameIdle /\ PredNameIdle /\ BoardIdle
    /\ pc = "table"
    /\ table \in SeriesTables
    /\ built = Raises("", <<>>)

Construct ==
    /\ pc = "table"
    /\ built' = TimeSeriesResult_init(table)
    /\ pc' = "built"
    /\ UNCHANGED <<ledgerVars, loadVars, result, scoreVars, nameVars, file_g,
                   boardVars, table>>

NextSeries == Construct

SpecSeries == InitSeries /\ [][NextSeries]_vars

\* some point forecast, or some forecast of a quantile column, is NaN or Inf
SomeNonFinite(t) ==
    \/ \E i \in 1..Len(t.pred) : t.pred[i] \in {NaN, Inf}
    \/ "0.5" \in Range(t.cols) /\ t.q \in {NaN, Inf}
\* the number of rows of item id x
GroupLength(t, x) == Cardinality({i \in 1..Len(t.ids) : t.ids[i] = x})
\* the item groups do not all have the same length
UnequalGroups(t) ==
    \E x, y \in Range(t.ids) : GroupLength(t, x) # GroupLength(t, y)
\* the columns are the mandatory ones plus quantile columns only
SeriesLayout(t) ==
    /\ required_columns \subseteq Range(t.cols)
    /\ Range(t.cols) \ required_columns \subseteq {"0.5"}

\* C14: constructing a TimeSeriesResult fails for every table with a NaN or
\* infinite point or quantile forecast and for every table whose item groups
\* differ in length; no object, hence no metric, comes out of it. When the
\* unequal lengths are the table's only defect the error is the
\* length-mismatch one and carries the lengths observed.
C14_SeriesValidatedAtConstruction ==
    (pc = "built" /\ (SomeNonFinite(table) \/ UnequalGroups(table))) =>
        /\ built.raised
        /\ built.truth = <<>> /\ built.predictions = <<>>
        /\ (SeriesLayout(table) /\ ~SomeNonFinite(table) /\ ~table.text_ids) =>
              /\ built.error = "different lengths"
              /\ Len(built.lengths) = Cardinality(Range(table.ids))
              /\ \A x \in Range(table.ids) : GroupLength(table, x) \in Range(built.lengths)

\* a table of finite forecasts whose two items have 2 rows and 1 row was
\* refused with the lengths 2 and 1
C14_Witness ==
    /\ pc = "built" /\ Len(table.ids) = 3 /\ UnequalGroups(table)
    /\ ~SomeNonFinite(table)
    /\ built.raised /\ built.error = "different lengths"
    /\ Range(built.lengths) = {1, 2}

\* C18: a table with the four mandatory columns, only quantile columns
\* besides, finite forecasts and item groups of equal length is accepted
\* whatever the order of its columns, also with repeated_item_id last and
\* non-numeric item ids, and truth / predictions are the values of the
\* columns of these names.
C18_ColumnOrderIndependent ==
    (pc = "built" /\ SeriesLayout(table) /\ ~SomeNonFinite(table)
        /\ ~UnequalGroups(table)) =>
        /\ ~built.raised
        /\ built.truth = Column(table, "truth")
        /\ built.predictions = Column(table, "predictions")

(***************************************************************************)
(* ClassificationResult._cm, _per_class_errors, max_pce, mean_pce          *)
(***************************************************************************)
\* A classification input: the number of classes (the encoded labels are
\* 1..classes) and the encoded truth and predictions of each row.

\* line 644: confusion_matrix(truth, predictions, labels): row i counts, per
\* predicted label, the rows whose truth is i
cm(t) ==
    [i \in 1..t.classes |->
        [j \in 1..t.classes |->
            Cardinality({r \in 1..Len(t.truth) :
                            t.truth[r] = i /\ t.predictions[r] = j})]]

RECURSIVE sum(_)
sum(r) == IF r = <<>> THEN 0 ELSE Head(r) + sum(Tail(r))

\* a float that is the quotient of two counts: num / den with den > 0
Frac(num, den) == <<"frac", num, den>>

\* numpy's integer division (s-d)/s: 0/0 is nan (with a RuntimeWarning)
divide(num, den) == IF den = 0 THEN NaN ELSE Frac(num, den)

\* line 651: [(s-d)/s for s, d in ((sum(r), r[i]) for i, r in enumerate(cm))]
per_class_errors(t) ==
    LET m == cm(t)
    IN  [i \in 1..t.classes |-> divide(sum(m[i]) - m[i][i], sum(m[i]))]

\* x > y on floats: False when either is nan
greater(x, y) ==
    /\ x # NaN /\ y # NaN
    /\ x[2] * y[3] > y[2] * x[3]

\* max(list): the first element, replaced by each later element that is
\* greater than the maximum so far
RECURSIVE max_from(_, _, _)
max_from(xs, i, best) ==
    IF i > Len(xs) THEN best
    ELSE max_from(xs, i + 1, IF greater(xs[i], best) THEN xs[i] ELSE best)
max(xs) == max_from(xs, 2, xs[1])

\* the sum of fractions, from the i-th on, added to acc
RECURSIVE frac_sum(_, _, _)
frac_sum(xs, i, acc) ==
    IF i > Len(xs) THEN acc
    ELSE frac_sum(xs, i + 1,
            Frac(acc[2] * xs[i][3] + xs[i][2] * acc[3], acc[3] * xs[i][3]))

\* statistics.mean(list): nan when an element is nan
mean(xs) ==
    IF \E i \in 1..Len(xs) : xs[i] = NaN THEN NaN
    ELSE LET total == frac_sum(xs, 1, Frac(0, 1))
         IN  Frac(total[2], total[3] * Len(xs))

\* lines 616-618
max_pce(t) == max(per_class_errors(t))
\* lines 621-623
mean_pce(t) == mean(per_class_errors(t))

(***************************************************************************)
(* SpecPce: max_pce and mean_pce of a ClassificationResult                 *)
(***************************************************************************)
\* bound: number of classes (probability columns) of the table
MaxClasses == 3
\* bound: number of rows of the table
MaxPceRows == 3

ClassificationInputs ==
    UNION {[classes : {k},
            truth : [1..n -> 1..k],
            predictions : [1..n -> 1..k]] : k \in 2..MaxClasses, n \in 1..MaxPceRows}

NoPce == [mean_pce |-> NaN, max_pce |-> NaN]

InitPce ==
    /\ LedgerIdle /\ LoadIdle /\ ScoreIdle /\ result = NoResultYet
    /\ NameIdle /\ PredNameIdle /\ BoardIdle
    /\ pc = "classified"
    /\ table \in ClassificationInputs
    /\ built = NoPce

PerClassErrors ==
    /\ pc = "classified"
    /\ built' = [mean_pce |-> mean_pce(table), max_pce |-> max_pce(table)]
    /\ pc' = "pce"
    /\ UNCHANGED <<ledgerVars, loadVars, result, scoreVars, nameVars, file_g,
                   boardVars, table>>

NextPce == PerClassErrors

SpecPce == InitPce /\ [][NextPce]_vars

\* x <= y, x in [0, 1] for fractions
FracLeq(x, y) == x[2] * y[3] <= y[2] * x[3]
InUnitInterval(x) == x # NaN /\ 0 <= x[2] /\ x[2] <= x[3]

\* C15: for every class set and every truth and prediction vectors over it,
\* classes absent from truth included, mean_pce and max_pce are numbers of
\* [0, 1] and mean_pce <= max_pce.
C15_PceBounds ==
    pc = "pce" =>
        /\ InUnitInterval(built.mean_pce)
        /\ InUnitInterval(built.max_pce)
        /\ FracLeq(built.mean_pce, built.max_pce)

(***************************************************************************)
(* The row checks of TaskResult.validate_predictions                       *)
(***************************************************************************)
\* A classification table that passes lines 348-360: its probability
\* columns are labelled 1..classes in sorted order and hold numbers; each
\* row has its probabilities and its predicted label.

\* Series.idxmax(): the label of the first column holding the maximum
idxmax(probs) ==
    CHOOSE i \in 1..Len(probs) :
        /\ \A j \in 1..Len(probs) : probs[j] <= probs[i]
        /\ \A j \in 1..(i - 1) : probs[j] < probs[i]

\* line 369: validate_row = lambda r: r[:-2].astype(float).idxmax() == r[-2]
validate_row(r) == idxmax(r.probs) = r.pred

\* lines 376-378: "ok", or the assertion that fails
validate_rows(t) ==
    IF ~({t.rows[i].pred : i \in 1..Len(t.rows)} \subseteq 1..t.classes)
    THEN "unexpected"
    ELSE IF ~(\A i \in 1..Len(t.rows) : validate_row(t.rows[i])) THEN "argmax"
    ELSE "ok"

(***************************************************************************)
(* SpecArgmax: validate_predictions on the rows of a classification table  *)
(***************************************************************************)
\* bound: number of rows of the table
MaxArgmaxRows == 2
\* bound: the probabilities are 0..MaxProb (in units of 1 / MaxProb)
MaxProb == 2

\* the rows: probabilities and a predicted label, which may be a label no
\* column has (classes + 1)
ArgmaxTables ==
    UNION {[classes : {k},
            rows : [1..n -> [probs : [1..k -> 0..MaxProb], pred : 1..(k + 1)]]] :
                k \in 2..MaxClasses, n \in 1..MaxArgmaxRows}

InitArgmax ==
    /\ LedgerIdle /\ LoadIdle /\ ScoreIdle /\ result = NoResultYet
    /\ NameIdle /\ PredNameIdle /\ BoardIdle
    /\ pc = "read"
    /\ table \in ArgmaxTables
    /\ built = [check |-> ""]

ValidateRows ==
    /\ pc = "read"
    /\ built' = [check |-> validate_rows(table)]
    /\ pc' = "validated"
    /\ UNCHANGED <<ledgerVars, loadVars, result, scoreVars, nameVars, file_g,
                   boardVars, table>>

NextArgmax == ValidateRows

SpecArgmax == InitArgmax /\ [][NextArgmax]_vars

\* the predicted label of the row names a column holding the row's maximum
HoldsMaximum(r) == \A j \in 1..Len(r.probs) : r.probs[j] <= r.probs[r.pred]

\* C16: a classification table that passes the other checks (predicted
\* labels among the class labels included) passes validation if and only if
\* in every row the predicted label names a probability column that holds
\* the maximum of the row.
C16_ArgmaxIff ==
    (pc = "validated"
        /\ \A i \in 1..Len(table.rows) : table.rows[i].pred \in 1..table.classes)
    => (built.check = "ok"
            <=> \A i \in 1..Len(table.rows) : HoldsMaximum(table.rows[i]))

=============================================================================
